---------------------------- MODULE Spec2Model ----------------------------
(***************************************************************************)
(* A model of the Overture text-grid rendering pipeline: the geometry      *)
(* value types (interfaces/geometry.rs), the Renderable capability         *)
(* (interfaces/rendering.rs), the pixel-cluster and composite containers   *)
(* (interfaces/rasterization.rs, interfaces/containers.rs) and the render  *)
(* engine (engine.rs).                                                     *)
(***************************************************************************)
EXTENDS Integers, Sequences, FiniteSets, TLC

VARIABLES
    width,      \* OvertureRenderEngine.width   (u32)
    objects,    \* OvertureRenderEngine.objects (RenderableList)
    buffer,     \* OvertureRenderEngine.buffer  (Vec<Vec<RenderChar>>), buffer[row][col], 1-based
    created,    \* the arguments new() was called with
    call,       \* the most recent call: its name, its arguments, what it returned and
                \* (for an engine call) the buffer it started from
    prev,       \* the call before it (its arguments are kept for a load_renderable)
    ncalls,     \* how many engine calls have been made since new()
    subject     \* the Renderable a capability method is called on

vars == <<width, objects, buffer, created, call, prev, ncalls, subject>>

-----------------------------------------------------------------------------
(* Bounds of the model.                                                    *)

\* Largest column and row a set_pixel call is aimed at.
MaxCoord == 2
\* Largest height passed to render.
MaxRender == 4
\* Number of engine calls explored after new().
MaxCalls == 2
\* Largest engine explored by the placement specification.
MaxWidth == 5
MaxHeight == 3
\* Longest glyph vector, largest unit coordinate and largest target size drawn as
\* inputs of the capability methods.
MaxLen == 3
MaxPos == 2
MaxTarget == 3

\* printed styles: chains of up to MaxChain attributes
MaxChain == 2

\* The longest collection a RenderableList is built from.
MaxItems == 3

\* How many times next() is called on an iterator after it first returned None.
MaxNones == 2

-----------------------------------------------------------------------------
(* Machine integers.  A u32 or i32 does not fit the checker's integers, so *)
(* a value is held as two 16-bit limbs: value = hi * 2^16 + lo with        *)
(* 0 <= lo < 2^16.  A u32 has 0 <= hi < 2^16, an i32 has                   *)
(* -2^15 <= hi < 2^15; an intermediate mathematical result may lie outside *)
(* both ranges until it is wrapped.                                        *)

Limb == 2^16
HalfLimb == 2^15

\* The value of the integer literal n.
Z(n) == [hi |-> n \div Limb, lo |-> n % Limb]

ZAdd(a, b) ==
    LET s == a.lo + b.lo
    IN  [hi |-> a.hi + b.hi + (s \div Limb), lo |-> s % Limb]

ZSub(a, b) ==
    LET d == a.lo - b.lo
    IN  [hi |-> a.hi - b.hi + (d \div Limb), lo |-> d % Limb]

ZLt(a, b) == a.hi < b.hi \/ (a.hi = b.hi /\ a.lo < b.lo)

ZLe(a, b) == a = b \/ ZLt(a, b)

ZMax(a, b) == IF ZLt(a, b) THEN b ELSE a

ZMin(a, b) == IF ZLt(b, a) THEN b ELSE a

InU32(z) == 0 <= z.hi /\ z.hi < Limb

InI32(z) == -HalfLimb <= z.hi /\ z.hi < HalfLimb

\* `as u32`: the value modulo 2^32.
as_u32(z) == [hi |-> z.hi % Limb, lo |-> z.lo]

\* `as i32`: the value modulo 2^32, read as two's complement.
as_i32(z) == [hi |-> ((z.hi + HalfLimb) % Limb) - HalfLimb, lo |-> z.lo]

\* `as usize` of a u32 (usize is at least as wide); an index the checker can count with.
as_usize(u) == u.hi * Limb + u.lo

\* u32 + u32, u32 - u32, i32 + i32, i32 - i32 as a release build computes them
\* (wrapping); a debug build panics instead when the mathematical result (ZAdd,
\* ZSub) is outside the type (InU32, InI32).
u32_add(a, b) == as_u32(ZAdd(a, b))

u32_sub(a, b) == as_u32(ZSub(a, b))

i32_add(a, b) == as_i32(ZAdd(a, b))

i32_sub(a, b) == as_i32(ZSub(a, b))

\* u32::saturating_sub
saturating_sub(a, b) == IF ZLt(a, b) THEN Z(0) ELSE ZSub(a, b)

\* u32 / 2
u32_half(a) == [hi |-> a.hi \div 2, lo |-> ((a.hi % 2) * Limb + a.lo) \div 2]

-----------------------------------------------------------------------------
(* Value types.                                                            *)

\* DiscreteCoord { x: u32, y: u32 }
DiscreteCoord(x, y) == [x |-> x, y |-> y]

\* Translation { x: i32, y: i32 }
Translation(x, y) == [x |-> x, y |-> y]

\* RenderStyle: Nil, Plain, or Styled(seq, Box<RenderStyle>).  A chain
\* Styled(a1, Styled(a2, ... end)) is held as its attributes in order and its end.
StyleNil == [seqs |-> <<>>, end |-> "Nil"]

StylePlain == [seqs |-> <<>>, end |-> "Plain"]

Styled(seq, inner) == [seqs |-> <<seq>> \o inner.seqs, end |-> inner.end]

\* RenderChar { ch, style }
RenderChar(ch, style) == [ch |-> ch, style |-> style]

new_plain(ch) == RenderChar(ch, StylePlain)

BLANK_RENDER_CHAR == [ch |-> " ", style |-> StylePlain]

\* Pixel { content, position, protected }
Pixel(content, position, protected) ==
    [content |-> content, position |-> position, protected |-> protected]

\* RenderPlacementConfig; Offset carries a Translation.
Corner(tag) == [tag |-> tag, t |-> Translation(Z(0), Z(0))]

Offset(t) == [tag |-> "Offset", t |-> t]

NonOffsetPlacements ==
    { Corner(tag) : tag \in {"TopLeft", "TopRight", "BottomLeft", "BottomRight",
                             "CenterLeft", "CenterTop", "CenterRight", "CenterBottom",
                             "CenterStage"} }

\* Option<RenderPlacementConfig>
None == [some |-> FALSE, val |-> Corner("TopLeft")]

Some(p) == [some |-> TRUE, val |-> p]

\* an unwrap_or whose fallback is CenterStage whatever default it is handed
unwrap_or_center(opt, default) == IF opt.some THEN opt.val ELSE Corner("CenterStage")

unwrap_or(opt, default) == IF opt.some THEN opt.val ELSE default

-----------------------------------------------------------------------------
(* Renderables.  A Vec<Pixel> is [kind |-> "Vec", items |-> <<pixel, ...>>]; *)
(* a RenderableList is Nil or Link(head, tail).                              *)

VecOf(items) == [kind |-> "Vec", items |-> items]

Nil == [kind |-> "Nil"]

Link(head, tail) == [kind |-> "Link", head |-> head, tail |-> tail]

\* a pixels() that collects the rest of a list before its first element
RECURSIVE pixels_tail_first(_)
pixels_tail_first(obj) ==
    CASE obj.kind = "Vec"  -> obj.items
      [] obj.kind = "Link" -> pixels_tail_first(obj.tail) \o pixels_tail_first(obj.head)
      [] obj.kind = "Nil"  -> <<>>

RECURSIVE pixels(_)
pixels(obj) ==
    CASE obj.kind = "Vec"  -> obj.items
      [] obj.kind = "Link" -> pixels(obj.head) \o pixels(obj.tail)
      [] obj.kind = "Nil"  -> <<>>

\* iter().map(f).min() / .max() over a non-empty vector of u32
RECURSIVE fold_min(_, _, _)
fold_min(px, i, acc) ==
    IF i > Len(px) THEN acc ELSE fold_min(px, i + 1, ZMin(acc, px[i]))

RECURSIVE fold_max(_, _, _)
fold_max(px, i, acc) ==
    IF i > Len(px) THEN acc ELSE fold_max(px, i + 1, ZMax(acc, px[i]))

min_of(vals) == IF Len(vals) = 0 THEN Z(0) ELSE fold_min(vals, 2, vals[1])

max_of(vals) == IF Len(vals) = 0 THEN Z(0) ELSE fold_max(vals, 2, vals[1])

xs_of(px) == [i \in 1..Len(px) |-> px[i].position.x]

ys_of(px) == [i \in 1..Len(px) |-> px[i].position.y]

\* impl Renderable for Vec<Pixel>: dim
vec_dim(items) ==
    IF Len(items) = 0 THEN DiscreteCoord(Z(0), Z(0))
    ELSE DiscreteCoord(u32_add(fold_max(xs_of(items), 1, Z(0)), Z(1)),
                       u32_add(fold_max(ys_of(items), 1, Z(0)), Z(1)))

\* a dim() that measures all the pixels of a list
dim_of_all(obj) == vec_dim(pixels(obj))

\* dim(): of a Vec<Pixel>, and of a RenderableList (its first element's)
RECURSIVE renderable_dim(_)
renderable_dim(obj) ==
    CASE obj.kind = "Vec"  -> vec_dim(obj.items)
      [] obj.kind = "Link" -> renderable_dim(obj.head)
      [] obj.kind = "Nil"  -> DiscreteCoord(Z(0), Z(0))

-----------------------------------------------------------------------------
(* RenderableList as a container (interfaces/containers.rs, macros.rs).    *)

\* a.into_iter().rfold(acc, |acc, item| Link(item, Box::new(acc))) from element i down
RECURSIVE rfold_link(_, _, _)
rfold_link(a, i, acc) ==
    IF i = 0 THEN acc ELSE rfold_link(a, i - 1, Link(a[i], acc))

\* a fold from the front, which links the elements in reverse
RECURSIVE fold_link(_, _, _)
fold_link(a, i, acc) ==
    IF i > Len(a) THEN acc ELSE fold_link(a, i + 1, Link(a[i], acc))

\* a build_from_vector that folds from the front
build_from_vector_folding(a) == fold_link(a, 1, Nil)

\* RenderableList::build_from_vector
build_from_vector(a) == rfold_link(a, Len(a), Nil)

\* RenderableList::from_items: each item boxed, then build_from_vector
from_items(a) == build_from_vector([i \in 1..Len(a) |-> a[i]])

\* renderable_list![head, tail...]
RECURSIVE renderable_list(_)
renderable_list(a) ==
    IF Len(a) = 0 THEN Nil ELSE Link(Head(a), renderable_list(Tail(a)))

\* RenderableList::len
RECURSIVE len(_)
len(self) ==
    CASE self.kind = "Link" -> 1 + len(self.tail)
      [] self.kind = "Nil"  -> 0

\* RenderableList::is_empty
is_empty(self) == self.kind = "Nil"

\* RenderableListIter { current: Option<&RenderableList> }
IterAt(l) == [some |-> TRUE, at |-> l]

IterDone == [some |-> FALSE, at |-> Nil]

\* Option<&dyn Renderable>
NoItem == [some |-> FALSE, val |-> Nil]

SomeItem(r) == [some |-> TRUE, val |-> r]

\* RenderableList::iter
iter(self) == [current |-> IterAt(self)]

\* RenderableListIter::next: the iterator after the call and what the call returns
next(it) ==
    IF it.current.some /\ it.current.at.kind = "Link"
    THEN [it |-> [current |-> IterAt(it.current.at.tail)], item |-> SomeItem(it.current.at.head)]
    ELSE [it |-> [current |-> IterDone], item |-> NoItem]

-----------------------------------------------------------------------------
(* The Renderable capability's default methods (interfaces/rendering.rs).  *)

\* an Add<Translation> that moves both axes by the translation's x
coord_add_x_twice(c, t) ==
    DiscreteCoord(as_u32(ZMax(i32_add(as_i32(c.x), t.x), Z(0))),
                  as_u32(ZMax(i32_add(as_i32(c.y), t.x), Z(0))))

\* impl Add<Translation> for DiscreteCoord: (self.x as i32 + rhs.x).max(0) as u32
coord_add(c, t) ==
    DiscreteCoord(as_u32(ZMax(i32_add(as_i32(c.x), t.x), Z(0))),
                  as_u32(ZMax(i32_add(as_i32(c.y), t.y), Z(0))))

\* Translation::apply_to: max(0, coord.x as i32 + self.x) as u32
apply_to(t, coord) ==
    DiscreteCoord(as_u32(ZMax(Z(0), i32_add(as_i32(coord.x), t.x))),
                  as_u32(ZMax(Z(0), i32_add(as_i32(coord.y), t.y))))

\* impl Add<DiscreteCoord> for Translation: (rhs.x as i32 + self.x).max(0) as u32
translation_add(t, rhs) ==
    DiscreteCoord(as_u32(ZMax(i32_add(as_i32(rhs.x), t.x), Z(0))),
                  as_u32(ZMax(i32_add(as_i32(rhs.y), t.y), Z(0))))

\* Translation::zero
zero == Translation(Z(0), Z(0))

\* What a call gives back: a value, or a panic.
Value(v) == [panic |-> FALSE, val |-> v]

Panic == [panic |-> TRUE]

\* `coord.x as i32 + t.x` or `coord.y as i32 + t.y` leaves the i32 range: a build with
\* overflow checks panics there, a build without them wraps.
add_overflows(coord, t) ==
    \/ ~InI32(ZAdd(as_i32(coord.x), t.x))
    \/ ~InI32(ZAdd(as_i32(coord.y), t.y))

\* The outcomes of one of the three additions, `wrapped` being its wrapping result.
add_outcomes(coord, t, wrapped) ==
    IF add_overflows(coord, t) THEN {Panic, Value(wrapped)} ELSE {Value(wrapped)}

\* a subtraction that wraps below zero instead of saturating
coord_sub_wrapping(a, b) == DiscreteCoord(u32_sub(a.x, b.x), u32_sub(a.y, b.y))

\* impl Sub for DiscreteCoord
coord_sub(a, b) == DiscreteCoord(saturating_sub(a.x, b.x), saturating_sub(a.y, b.y))

\* impl SubAssign for DiscreteCoord: self after `self -= other`
coord_sub_assign(self, other) ==
    [self EXCEPT !.x = saturating_sub(self.x, other.x),
                 !.y = saturating_sub(self.y, other.y)]

\* Renderable::translate
translate(obj, by) ==
    LET px == pixels(obj)
    IN  [i \in 1..Len(px) |-> Pixel(px[i].content, coord_add(px[i].position, by), px[i].protected)]

\* align_offset with the centred placements taking the whole available space
align_offset_unhalved(to, available_width, available_height) ==
    CASE to.tag \in {"TopLeft", "CenterLeft"}  -> <<Z(0), Z(0)>>
      [] to.tag \in {"TopRight", "CenterTop"}  -> <<available_width, Z(0)>>
      [] to.tag = "BottomLeft"                 -> <<Z(0), available_height>>
      [] to.tag = "Offset"                     -> <<as_u32(to.t.x), as_u32(to.t.y)>>
      [] OTHER                                 -> <<available_width, available_height>>

\* Renderable::align: the offset chosen by the placement
align_offset(to, available_width, available_height) ==
    CASE to.tag = "TopLeft"      -> <<Z(0), Z(0)>>
      [] to.tag = "TopRight"     -> <<available_width, Z(0)>>
      [] to.tag = "BottomLeft"   -> <<Z(0), available_height>>
      [] to.tag = "BottomRight"  -> <<available_width, available_height>>
      [] to.tag = "CenterTop"    -> <<u32_half(available_width), Z(0)>>
      [] to.tag = "CenterBottom" -> <<u32_half(available_width), available_height>>
      [] to.tag = "CenterLeft"   -> <<Z(0), u32_half(available_height)>>
      [] to.tag = "CenterRight"  -> <<available_width, u32_half(available_height)>>
      [] to.tag = "CenterStage"  -> <<u32_half(available_width), u32_half(available_height)>>
      [] to.tag = "Offset"       -> <<as_u32(to.t.x), as_u32(to.t.y)>>

\* Renderable::align
align(obj, to, dim) ==
    LET px == pixels(obj)
        min_x == min_of(xs_of(px))
        min_y == min_of(ys_of(px))
        max_x == max_of(xs_of(px))
        max_y == max_of(ys_of(px))
        obj_width == u32_add(u32_sub(max_x, min_x), Z(1))
        obj_height == u32_add(u32_sub(max_y, min_y), Z(1))
        available_width == saturating_sub(dim.x, obj_width)
        available_height == saturating_sub(dim.y, obj_height)
        offset == align_offset(to, available_width, available_height)
        total_translation ==
            Translation(i32_sub(as_i32(offset[1]), as_i32(min_x)),
                        i32_sub(as_i32(offset[2]), as_i32(min_y)))
    IN  IF Len(px) = 0 THEN <<>> ELSE translate(obj, total_translation)

\* Renderable::rasterize
rasterize(obj) == pixels(obj)

\* a filter that keeps the non-blank glyphs only, whatever their protection
RECURSIVE filter_kept_visible(_, _)
filter_kept_visible(px, i) ==
    IF i > Len(px) THEN <<>>
    ELSE IF px[i].content.ch # BLANK_RENDER_CHAR.ch
         THEN <<px[i]>> \o filter_kept_visible(px, i + 1)
         ELSE filter_kept_visible(px, i + 1)

\* the filter of Renderable::prune
RECURSIVE filter_kept(_, _)
filter_kept(px, i) ==
    IF i > Len(px) THEN <<>>
    ELSE IF px[i].content.ch # BLANK_RENDER_CHAR.ch \/ px[i].protected
         THEN <<px[i]>> \o filter_kept(px, i + 1)
         ELSE filter_kept(px, i + 1)

\* Renderable::prune
prune(obj) == filter_kept(rasterize(obj), 1)

\* Renderable::set_protect
set_protect(obj, protect_flag) ==
    LET px == pixels(obj)
    IN  [i \in 1..Len(px) |-> Pixel(px[i].content, px[i].position, protect_flag)]

\* a protect that copies the pixels and leaves every protection flag as it is
protect_nothing(obj) ==
    LET px == pixels(obj)
    IN  [i \in 1..Len(px) |-> Pixel(px[i].content, px[i].position, px[i].protected)]

\* Renderable::protect
protect(obj) ==
    LET px == pixels(obj)
    IN  [i \in 1..Len(px) |-> Pixel(px[i].content, px[i].position, TRUE)]

\* a style that puts the new attributes in front of the style a unit already has
style_stacking(self, style_seq) ==
    [i \in 1..Len(self) |->
        Pixel(IF style_seq.seqs # <<>>
              THEN RenderChar(self[i].content.ch,
                              [seqs |-> style_seq.seqs \o self[i].content.style.seqs,
                               end |-> self[i].content.style.end])
              ELSE self[i].content,
              self[i].position, self[i].protected)]

\* impl Stylable for Vec<Pixel>: style.  For Styled(seq, other) each unit's content is
\* RenderChar::new(x.content.ch, Styled(seq, other)); for Plain and Nil it is a clone.
style(self, style_seq) ==
    [i \in 1..Len(self) |->
        Pixel(IF style_seq.seqs # <<>>
              THEN RenderChar(self[i].content.ch,
                              Styled(Head(style_seq.seqs),
                                     [seqs |-> Tail(style_seq.seqs), end |-> style_seq.end]))
              ELSE self[i].content,
              self[i].position, self[i].protected)]

-----------------------------------------------------------------------------
(* The engine (engine.rs).  Each operation is a function of the engine's   *)
(* width and buffer that returns the buffer it leaves.                     *)

\* vec![RenderChar::BLANK_RENDER_CHAR; width as usize]
blank_row(w) == [i \in 1..as_usize(w) |-> BLANK_RENDER_CHAR]

\* OvertureRenderEngine::new: the buffer of `height` blank rows
new_buffer(w, h) == [r \in 1..as_usize(h) |-> blank_row(w)]

\* a growth loop that runs once more: while self.buffer.len() <= y + 1
RECURSIVE grow_past_one_more(_, _, _)
grow_past_one_more(buf, w, yi) ==
    IF Len(buf) <= yi + 1
    THEN grow_past_one_more(Append(buf, [i \in 1..as_usize(w) |-> BLANK_RENDER_CHAR]), w, yi)
    ELSE buf

\* while self.buffer.len() <= y { push(blank row) }
RECURSIVE grow_past(_, _, _)
grow_past(buf, w, yi) ==
    IF Len(buf) <= yi THEN grow_past(Append(buf, blank_row(w)), w, yi) ELSE buf

\* a padding loop that runs once more: while self.buffer.len() <= height
RECURSIVE grow_to_one_more(_, _, _)
grow_to_one_more(buf, w, n) ==
    IF Len(buf) <= n
    THEN grow_to_one_more(Append(buf, [i \in 1..as_usize(w) |-> BLANK_RENDER_CHAR]), w, n)
    ELSE buf

\* while self.buffer.len() < height { push(blank row) }
RECURSIVE grow_to(_, _, _)
grow_to(buf, w, n) ==
    IF Len(buf) < n THEN grow_to(Append(buf, blank_row(w)), w, n) ELSE buf

\* a set_pixel that clamps the column to the last one instead of dropping the write
set_pixel_clamping(w, buf, x, y, ch) ==
    LET yi == as_usize(y)
        grown == grow_past(buf, w, yi)
        xi == IF ZLt(x, w) THEN as_usize(x) ELSE as_usize(w) - 1
    IN  IF as_usize(w) > 0 THEN [grown EXCEPT ![yi + 1][xi + 1] = ch] ELSE grown

\* a set_pixel that writes blank cells only: the first glyph written to a cell stays
set_pixel_keeping(w, buf, x, y, ch) ==
    LET yi == as_usize(y)
        grown == grow_past(buf, w, yi)
    IN  IF ZLt(x, w) /\ grown[yi + 1][as_usize(x) + 1] = BLANK_RENDER_CHAR
        THEN [grown EXCEPT ![yi + 1][as_usize(x) + 1] = ch]
        ELSE grown

\* OvertureRenderEngine::set_pixel
set_pixel(w, buf, x, y, ch) ==
    LET yi == as_usize(y)
        grown == grow_past(buf, w, yi)
    IN  IF ZLt(x, w)
        THEN [grown EXCEPT ![yi + 1][as_usize(x) + 1] = ch]
        ELSE grown

\* Renderable::render_at, the loop over self.pixels()
RECURSIVE paint(_, _, _, _, _, _)
paint(px, i, x, y, w, buf) ==
    IF i > Len(px) THEN buf
    ELSE paint(px, i + 1, x, y, w,
               set_pixel(w, buf, u32_add(x, px[i].position.x),
                         u32_add(y, px[i].position.y), px[i].content))

\* Renderable::render_at
render_at(obj, x, y, w, buf) ==
    LET px == pixels(obj)
    IN  IF Len(px) = 0 THEN buf ELSE paint(px, 1, x, y, w, buf)

\* an anchor table whose CenterLeft and CenterRight rows are exchanged
load_anchor_mirrored(p, available_width, available_height) ==
    CASE p.tag = "TopLeft"      -> <<Z(0), Z(0)>>
      [] p.tag = "TopRight"     -> <<available_width, Z(0)>>
      [] p.tag = "BottomLeft"   -> <<Z(0), available_height>>
      [] p.tag = "BottomRight"  -> <<available_width, available_height>>
      [] p.tag = "CenterTop"    -> <<u32_half(available_width), Z(0)>>
      [] p.tag = "CenterBottom" -> <<u32_half(available_width), available_height>>
      [] p.tag = "CenterLeft"   -> <<available_width, u32_half(available_height)>>
      [] p.tag = "CenterRight"  -> <<Z(0), u32_half(available_height)>>
      [] p.tag = "CenterStage"  -> <<u32_half(available_width), u32_half(available_height)>>
      [] p.tag = "Offset"       -> <<as_u32(ZMax(p.t.x, Z(0))), as_u32(ZMax(p.t.y, Z(0)))>>

\* an anchor table whose bottom rows start one row too low
load_anchor_past_edge(p, available_width, available_height) ==
    CASE p.tag = "TopLeft"      -> <<Z(0), Z(0)>>
      [] p.tag = "TopRight"     -> <<available_width, Z(0)>>
      [] p.tag = "BottomLeft"   -> <<Z(0), u32_add(available_height, Z(1))>>
      [] p.tag = "BottomRight"  -> <<available_width, u32_add(available_height, Z(1))>>
      [] p.tag = "CenterTop"    -> <<u32_half(available_width), Z(0)>>
      [] p.tag = "CenterBottom" -> <<u32_half(available_width), u32_add(available_height, Z(1))>>
      [] p.tag = "CenterLeft"   -> <<Z(0), u32_half(available_height)>>
      [] p.tag = "CenterRight"  -> <<available_width, u32_half(available_height)>>
      [] p.tag = "CenterStage"  -> <<u32_half(available_width), u32_half(available_height)>>
      [] p.tag = "Offset"       -> <<as_u32(ZMax(p.t.x, Z(0))), as_u32(ZMax(p.t.y, Z(0)))>>

\* load_anchor with the centred placements taking the whole available space
load_anchor_unhalved(p, available_width, available_height) ==
    CASE p.tag \in {"TopLeft", "CenterLeft"}  -> <<Z(0), Z(0)>>
      [] p.tag \in {"TopRight", "CenterTop"}  -> <<available_width, Z(0)>>
      [] p.tag = "BottomLeft"                 -> <<Z(0), available_height>>
      [] p.tag = "Offset"                     ->
             <<as_u32(ZMax(p.t.x, Z(0))), as_u32(ZMax(p.t.y, Z(0)))>>
      [] OTHER                                -> <<available_width, available_height>>

\* load_renderable: the anchor chosen by the placement
load_anchor(p, available_width, available_height) ==
    CASE p.tag = "TopLeft"      -> <<Z(0), Z(0)>>
      [] p.tag = "TopRight"     -> <<available_width, Z(0)>>
      [] p.tag = "BottomLeft"   -> <<Z(0), available_height>>
      [] p.tag = "BottomRight"  -> <<available_width, available_height>>
      [] p.tag = "CenterTop"    -> <<u32_half(available_width), Z(0)>>
      [] p.tag = "CenterBottom" -> <<u32_half(available_width), available_height>>
      [] p.tag = "CenterLeft"   -> <<Z(0), u32_half(available_height)>>
      [] p.tag = "CenterRight"  -> <<available_width, u32_half(available_height)>>
      [] p.tag = "CenterStage"  -> <<u32_half(available_width), u32_half(available_height)>>
      [] p.tag = "Offset"       -> <<as_u32(ZMax(p.t.x, Z(0))), as_u32(ZMax(p.t.y, Z(0)))>>

\* load_renderable: the pixels moved to the object's own origin
normalized_pixels(px, min_x, min_y) ==
    [i \in 1..Len(px) |->
        Pixel(px[i].content,
              DiscreteCoord(u32_sub(px[i].position.x, min_x),
                            u32_sub(px[i].position.y, min_y)),
              px[i].protected)]

\* a load_renderable that paints the normalized positions at the anchor
load_renderable_normalizing(w, buf, obj, placement) ==
    LET px == pixels(obj)
        normalized == normalized_pixels(px, min_of(xs_of(px)), min_of(ys_of(px)))
        available_width == saturating_sub(w, u32_add(max_of(xs_of(normalized)), Z(1)))
        available_height == saturating_sub(Z(Len(buf)), u32_add(max_of(ys_of(normalized)), Z(1)))
        pos == load_anchor(unwrap_or(placement, Corner("TopLeft")),
                           available_width, available_height)
    IN  IF Len(px) = 0 THEN buf
        ELSE render_at(VecOf(normalized), pos[1], pos[2], w, buf)

\* a load_renderable that takes the object's height to be its largest row index
load_renderable_short(w, buf, obj, placement) ==
    LET px == pixels(obj)
        normalized == normalized_pixels(px, min_of(xs_of(px)), min_of(ys_of(px)))
        available_width == saturating_sub(w, u32_add(max_of(xs_of(normalized)), Z(1)))
        available_height == saturating_sub(Z(Len(buf)), max_of(ys_of(normalized)))
        pos == load_anchor(unwrap_or(placement, Corner("TopLeft")),
                           available_width, available_height)
    IN  IF Len(px) = 0 THEN buf
        ELSE render_at(obj, pos[1], pos[2], w, buf)

\* a load_renderable without the early return, which blanks the anchor cell before
\* painting the object
load_renderable_marking(w, buf, obj, placement) ==
    LET px == pixels(obj)
        available_width == saturating_sub(w, u32_add(u32_sub(max_of(xs_of(px)), min_of(xs_of(px))), Z(1)))
        available_height == saturating_sub(Z(Len(buf)), u32_add(u32_sub(max_of(ys_of(px)), min_of(ys_of(px))), Z(1)))
        pos == load_anchor(unwrap_or(placement, Corner("TopLeft")),
                           available_width, available_height)
    IN  render_at(obj, pos[1], pos[2], w, set_pixel(w, buf, pos[1], pos[2], BLANK_RENDER_CHAR))

\* OvertureRenderEngine::load_renderable
load_renderable(w, buf, obj, placement) ==
    LET px == pixels(obj)
        min_x == min_of(xs_of(px))
        min_y == min_of(ys_of(px))
        normalized == normalized_pixels(px, min_x, min_y)
        obj_width == u32_add(max_of(xs_of(normalized)), Z(1))
        obj_height == u32_add(max_of(ys_of(normalized)), Z(1))
        available_width == saturating_sub(w, obj_width)
        available_height == saturating_sub(Z(Len(buf)), obj_height)
        pos == load_anchor(unwrap_or(placement, Corner("TopLeft")),
                           available_width, available_height)
    IN  IF Len(px) = 0 THEN buf
        ELSE render_at(obj, pos[1], pos[2], w, buf)

\* a load_renderable that keeps the object it was handed at the head of self.objects
objects_retaining(objs, obj) == Link(obj, objs)

\* load_renderable and self.objects: `obj` is moved into the call and dropped at its
\* end; no statement of the method assigns to or reads self.objects
objects_after_load(objs, obj) == objs

\* a render that resizes the buffer to `height` rows, dropping the rows beyond it
render_resizing(w, buf, height) ==
    IF Len(buf) > as_usize(height)
    THEN SubSeq(buf, 1, as_usize(height))
    ELSE grow_to(buf, w, as_usize(height))

\* OvertureRenderEngine::render: the padding of the buffer (height is a u16)
render(w, buf, height) == grow_to(buf, w, as_usize(height))

\* ANSISequence::to_esc_code, the escape character written ESC
to_esc_code(seq) ==
    CASE seq = "Bold"      -> "ESC[1m"
      [] seq = "Underline" -> "ESC[4m"
      [] seq = "FgRed"     -> "ESC[31m"
      [] seq = "BgBlue"    -> "ESC[44m"

\* ioopts::ansi::styling::RESET
RESET == "ESC[0m"

\* render: the arm `RenderStyle::Nil => todo!()` is taken for this cell
hits_todo(ch) == ch.style.seqs = <<>> /\ ch.style.end = "Nil"

\* a print_cell that leaves the style switched on after a Styled cell
print_cell_unreset(ch) ==
    IF ch.style.seqs = <<>> THEN <<ch.ch>>
    ELSE <<to_esc_code(ch.style.seqs[1]),
           IF Len(ch.style.seqs) = 1 /\ ch.style.end = "Nil"
           THEN BLANK_RENDER_CHAR.ch ELSE ch.ch>>

\* render: what the match on ch.style prints for one cell that does not hit todo!().
\* Plain prints the glyph; Styled(seq, inner) prints seq's code, then the glyph (a blank
\* when inner is Nil; inner's own attributes are not printed), then RESET.
print_cell(ch) ==
    IF ch.style.seqs = <<>> THEN <<ch.ch>>
    ELSE <<to_esc_code(ch.style.seqs[1]),
           IF Len(ch.style.seqs) = 1 /\ ch.style.end = "Nil"
           THEN BLANK_RENDER_CHAR.ch ELSE ch.ch,
           RESET>>

\* render: `for ch in line { ... } println!()` from cell i on
RECURSIVE print_line(_, _)
print_line(line, i) ==
    IF i > Len(line) THEN [panic |-> FALSE, text |-> <<"\n">>]
    ELSE IF hits_todo(line[i]) THEN [panic |-> TRUE, text |-> <<>>]
    ELSE LET rest == print_line(line, i + 1)
         IN  [panic |-> rest.panic, text |-> print_cell(line[i]) \o rest.text]

\* render: `for line in &self.buffer { ... }` from row r on: what reaches stdout, and
\* whether the walk ended in todo!()
RECURSIVE print_lines(_, _)
print_lines(buf, r) ==
    IF r > Len(buf) THEN [panic |-> FALSE, text |-> <<>>]
    ELSE LET line == print_line(buf[r], 1)
             rest == print_lines(buf, r + 1)
         IN  IF line.panic THEN line
             ELSE [panic |-> rest.panic, text |-> line.text \o rest.text]

-----------------------------------------------------------------------------
(* Inputs.                                                                 *)

U32_MAX == [hi |-> Limb - 1, lo |-> Limb - 1]

CharA == new_plain("A")

CharB == RenderChar("B", Styled("Bold", StylePlain))

\* A unit with content c at column i, row j.
Unit(c, i, j) == Pixel(c, DiscreteCoord(Z(i), Z(j)), FALSE)

UnitCells == {0, 1} \X {0, 1}

\* Pixel vectors of one unit and of two: an 'A', then a bold 'B' or a blank, anywhere
\* in UnitCells (so two units may share a cell, and an object need not start at (0,0)).
OneUnitVecs == { VecOf(<<Unit(CharA, c[1], c[2])>>) : c \in UnitCells }

TwoUnitVecs ==
    { VecOf(<<Unit(CharA, c[1], c[2]), Unit(CharB, d[1], d[2])>>) : c \in UnitCells, d \in UnitCells }
    \cup { VecOf(<<Unit(CharB, 1, 0), Unit(BLANK_RENDER_CHAR, 0, 0)>>),
           VecOf(<<Unit(CharB, 2, 1), Unit(CharA, 1, 2)>>) }

\* Objects without pixels.
EmptyObjects == { VecOf(<<>>), Nil, Link(VecOf(<<>>), Nil), Link(Nil, Nil) }

\* Composite lists, one of them nested.
ListObjects ==
    { Link(VecOf(<<Unit(CharA, 0, 0), Unit(CharA, 1, 0)>>),
           Link(VecOf(<<Unit(CharB, 1, 0), Unit(CharB, 1, 1)>>), Nil)),
      Link(VecOf(<<Unit(CharB, 1, 1)>>), Link(VecOf(<<Unit(CharA, 1, 1)>>), Nil)),
      Link(Link(VecOf(<<Unit(CharA, 1, 0)>>), Nil),
           Link(VecOf(<<>>), Link(VecOf(<<Unit(BLANK_RENDER_CHAR, 1, 0), Unit(CharB, 2, 0)>>), Nil))) }

Objects == EmptyObjects \cup OneUnitVecs \cup TwoUnitVecs \cup ListObjects

Offsets ==
    { Offset(Translation(Z(1), Z(1))), Offset(Translation(Z(-1), Z(2))),
      Offset(Translation(Z(3), Z(-2))) }

AllPlacements == {None} \cup { Some(p) : p \in NonOffsetPlacements \cup Offsets }

\* The objects and placements tried inside longer call sequences.
SequenceObjects ==
    { Nil,
      VecOf(<<Unit(CharA, 0, 0)>>),
      VecOf(<<Unit(CharA, 0, 0), Unit(CharB, 1, 1)>>),
      VecOf(<<Unit(CharA, 0, 0), Unit(CharB, 0, 0)>>),
      VecOf(<<Unit(CharB, 1, 0), Unit(BLANK_RENDER_CHAR, 0, 0)>>),
      VecOf(<<Unit(CharB, 2, 1), Unit(CharA, 1, 2)>>),
      Link(VecOf(<<Unit(CharA, 0, 0), Unit(CharA, 1, 0)>>),
           Link(VecOf(<<Unit(CharB, 1, 0), Unit(CharB, 1, 1)>>), Nil)) }

SequencePlacements ==
    { None, Some(Corner("BottomRight")), Some(Corner("CenterStage")),
      Some(Offset(Translation(Z(-1), Z(2)))) }

SetPixelXs == { Z(0), Z(MaxCoord), U32_MAX }

SetPixelYs == { Z(j) : j \in 0..MaxCoord }

SetPixelChars == { CharA, CharB }

RenderHeights == { Z(0), Z(MaxRender \div 2), Z(MaxRender) }

\* Subjects of the capability methods.  Glyph vectors: up to MaxLen units in a row, each
\* a blank or a glyph, protected or not, one blank carrying a style.
GlyphKinds ==
    { [content |-> BLANK_RENDER_CHAR, protected |-> FALSE],
      [content |-> BLANK_RENDER_CHAR, protected |-> TRUE],
      [content |-> RenderChar(" ", Styled("BgBlue", StylePlain)), protected |-> FALSE],
      [content |-> CharA, protected |-> FALSE],
      [content |-> CharB, protected |-> TRUE] }

GlyphVecs ==
    UNION { { VecOf([i \in 1..n |->
                      Pixel(k[i].content, DiscreteCoord(Z(i - 1), Z(0)), k[i].protected)]) :
              k \in [1..n -> GlyphKinds] } : n \in 0..MaxLen }

\* Placed vectors: one unit or two anywhere in a (MaxPos+1) x (MaxPos+1) square.
Cells == (0..MaxPos) \X (0..MaxPos)

PlacedVecs ==
    { VecOf(<<Unit(CharA, c[1], c[2])>>) : c \in Cells }
    \cup { VecOf(<<Unit(CharA, c[1], c[2]), Unit(CharB, d[1], d[2])>>) : c \in Cells, d \in Cells }

\* Lists of one element and of two, an element being a pixel vector or a list.
ListElements ==
    { VecOf(<<>>), Nil,
      VecOf(<<Unit(CharA, 0, 0)>>),
      VecOf(<<Unit(CharB, 2, 1), Unit(CharA, 1, 2)>>),
      Link(VecOf(<<Unit(CharA, 1, 0)>>), Link(VecOf(<<Unit(CharB, 0, 1)>>), Nil)) }

ListSubjects ==
    { Link(e, Nil) : e \in ListElements }
    \cup { Link(e, Link(f, Nil)) : e \in ListElements, f \in ListElements }

Subjects == GlyphVecs \cup PlacedVecs \cup EmptyObjects \cup ListObjects \cup ListSubjects

\* Translations given to translate: each component negative, zero or positive.
TranslateBys == { Translation(Z(i), Z(j)) : i \in {-2, 0, 1}, j \in {-2, 0, 1} }

\* Target sizes of align: every size up to MaxTarget x MaxTarget, and 10 x 10.
Targets ==
    { DiscreteCoord(Z(i), Z(j)) : i \in 0..MaxTarget, j \in 0..MaxTarget }
    \cup { DiscreteCoord(Z(10), Z(10)), DiscreteCoord(Z(65539), Z(131076)) }

\* Styles of the printed cells: chains of up to MaxChain attributes ending in Plain or
\* in Nil.
Attributes == { "Bold", "Underline", "FgRed" }

RECURSIVE Chains(_)
Chains(n) ==
    IF n = 0 THEN { StylePlain, StyleNil }
    ELSE Chains(n - 1) \cup { Styled(a, c) : a \in Attributes, c \in Chains(n - 1) }

PrintChars == { RenderChar(g, c) : g \in { "X", " " }, c \in Chains(MaxChain) }

PrintSizes == { <<1, 0>>, <<2, 1>> }

\* Values at the edges of the 32-bit ranges: 2^31 - 1, 2^31 and -2^31.
I32_MAX == [hi |-> HalfLimb - 1, lo |-> Limb - 1]

I32_MAX_PLUS_1 == [hi |-> HalfLimb, lo |-> 0]

I32_MIN == [hi |-> -HalfLimb, lo |-> 0]

U32Values == { Z(0), Z(1), Z(5), I32_MAX, I32_MAX_PLUS_1, U32_MAX }

I32Values == { I32_MIN, Z(-4), Z(-1), Z(0), Z(3), I32_MAX }

Coords == { DiscreteCoord(x, y) : x \in U32Values, y \in U32Values }

Translations == { Translation(x, y) : x \in I32Values, y \in I32Values }

\* The drawables lists are built from: two pixel vectors and a list.
Drawables ==
    { VecOf(<<Unit(CharA, 0, 0)>>), VecOf(<<Unit(CharB, 1, 1)>>),
      Link(VecOf(<<Unit(CharA, 1, 0)>>), Nil) }

\* Vec<Box<dyn Renderable>>: ordered collections of up to MaxItems drawables.
Collections == UNION { [1..n -> Drawables] : n \in 0..MaxItems }

\* Vec<T>: the collections whose elements are of one type.
TypedCollections ==
    { a \in Collections : \A i, j \in 1..Len(a) : (a[i].kind = "Vec") = (a[j].kind = "Vec") }

\* The styles handed to style(): the two that change nothing, one attribute, and a
\* chain of two ending in Nil.
StyleArgs ==
    { StylePlain, StyleNil, Styled("Bold", StylePlain),
      Styled("FgRed", Styled("Underline", StyleNil)) }

\* The engines the call sequences start from: <<width, height>>.
SequenceSizes == { <<1, 0>>, <<2, 3>>, <<5, 3>> }

-----------------------------------------------------------------------------
(* The engine as a state machine.                                          *)

\* What a call leaves in `prev` when the next call is made.
Remembered(c) ==
    IF c.op = "load_renderable"
    THEN [op |-> c.op, obj |-> c.obj, placement |-> c.placement, old |-> c.old]
    ELSE IF c.op = "render" THEN [op |-> c.op, height |-> c.height]
    ELSE [op |-> c.op]

\* OvertureRenderEngine::new(w, h)
New(w, h) ==
    /\ width = w
    /\ objects = Nil
    /\ buffer = new_buffer(w, h)
    /\ created = [width |-> w, height |-> h]
    /\ call = [op |-> "new"]
    /\ prev = [op |-> "none"]
    /\ ncalls = 0
    /\ subject = Nil

\* engine.set_pixel(x, y, ch)
SetPixelCall(x, y, ch) ==
    /\ buffer' = set_pixel(width, buffer, x, y, ch)
    /\ call' = [op |-> "set_pixel", x |-> x, y |-> y, ch |-> ch, old |-> buffer]
    /\ prev' = Remembered(call)
    /\ ncalls' = ncalls + 1
    /\ UNCHANGED <<width, objects, created, subject>>

\* engine.load_renderable(obj, placement)
LoadCall(obj, placement) ==
    /\ buffer' = load_renderable(width, buffer, obj, placement)
    /\ objects' = objects_after_load(objects, obj)
    /\ call' = [op |-> "load_renderable", obj |-> obj, placement |-> placement, old |-> buffer]
    /\ prev' = Remembered(call)
    /\ ncalls' = ncalls + 1
    /\ UNCHANGED <<width, created, subject>>

\* engine.render(height)
RenderCall(height) ==
    /\ buffer' = render(width, buffer, height)
    /\ call' = [op |-> "render", height |-> height, old |-> buffer,
                out |-> print_lines(render(width, buffer, height), 1)]
    /\ prev' = Remembered(call)
    /\ ncalls' = ncalls + 1
    /\ UNCHANGED <<width, objects, created, subject>>

(* Call sequences: up to MaxCalls calls on an engine of one of SequenceSizes. *)

Init == \E s \in SequenceSizes : New(Z(s[1]), Z(s[2]))

SetPixel ==
    \E x \in SetPixelXs, y \in SetPixelYs, ch \in SetPixelChars :
        ncalls < MaxCalls /\ SetPixelCall(x, y, ch)

LoadRenderable ==
    \E obj \in SequenceObjects, placement \in SequencePlacements :
        ncalls < MaxCalls /\ LoadCall(obj, placement)

Render ==
    \E height \in RenderHeights :
        ncalls < MaxCalls /\ RenderCall(height)

Next == SetPixel \/ LoadRenderable \/ Render

Spec == Init /\ [][Next]_vars

(* Placement: every object under every placement, loaded into an engine of  *)
(* every size up to MaxWidth x MaxHeight, fresh or after one set_pixel, and  *)
(* then loaded once more.                                                   *)

InitPlace == \E w \in 0..MaxWidth, h \in 0..MaxHeight : New(Z(w), Z(h))

Prefill ==
    \E x \in {Z(0), Z(1)}, y \in {Z(0), Z(MaxHeight)} :
        call.op = "new" /\ SetPixelCall(x, y, CharB)

LoadPlaced ==
    \E obj \in Objects, placement \in AllPlacements :
        call.op \in {"new", "set_pixel"} /\ LoadCall(obj, placement)

\* the load just made, made once more with the same object and placement
Reload ==
    /\ call.op = "load_renderable"
    /\ prev.op # "load_renderable"
    /\ LoadCall(call.obj, call.placement)

NextPlace == Prefill \/ LoadPlaced \/ Reload

SpecPlace == InitPlace /\ [][NextPlace]_vars

(* The capability methods as pure functions: a subject is drawn, one method *)
(* is applied to it and what it returns is kept in `call`.                  *)

InitRenderable ==
    /\ subject \in Subjects
    /\ call = [op |-> "none"]
    /\ prev = [op |-> "none"]
    /\ width = Z(0)
    /\ objects = Nil
    /\ buffer = <<>>
    /\ created = [width |-> Z(0), height |-> Z(0)]
    /\ ncalls = 0

Returned(c) ==
    /\ call.op = "none"
    /\ call' = c
    /\ UNCHANGED <<width, objects, buffer, created, prev, ncalls, subject>>

Prune == Returned([op |-> "prune", ret |-> prune(subject)])

Protect == Returned([op |-> "protect", ret |-> protect(subject)])

Align ==
    \E to \in NonOffsetPlacements \cup Offsets, dim \in Targets :
        Returned([op |-> "align", to |-> to, dim |-> dim, ret |-> align(subject, to, dim)])

Translate ==
    \E by \in TranslateBys :
        Returned([op |-> "translate", by |-> by, self |-> pixels(subject),
                  ret |-> translate(subject, by)])

Pixels == Returned([op |-> "pixels", ret |-> pixels(subject)])

Dim == Returned([op |-> "dim", ret |-> renderable_dim(subject)])

\* v.style(s) on a pixel vector
Style ==
    \E s \in StyleArgs :
        /\ subject.kind = "Vec"
        /\ Returned([op |-> "style", arg |-> s, self |-> subject.items,
                     ret |-> style(subject.items, s)])

\* v.style(s1).style(s2): style applied to what a first style returned
StyleAgain ==
    \E s \in StyleArgs :
        /\ call.op = "style"
        /\ prev.op = "none"
        /\ call' = [op |-> "style", arg |-> s, self |-> call.ret, ret |-> style(call.ret, s)]
        /\ prev' = [op |-> "style", arg |-> call.arg]
        /\ UNCHANGED <<width, objects, buffer, created, ncalls, subject>>

NextRenderable ==
    Prune \/ Protect \/ Align \/ Translate \/ Pixels \/ Dim \/ Style \/ StyleAgain

SpecRenderable == InitRenderable /\ [][NextRenderable]_vars

(* Printing: one cell of any style is written to a small engine, which is  *)
(* then rendered.                                                          *)

InitPrint == \E s \in PrintSizes : New(Z(s[1]), Z(s[2]))

SetCell == \E ch \in PrintChars : call.op = "new" /\ SetPixelCall(Z(0), Z(0), ch)

RenderCell == \E height \in RenderHeights : call.op = "set_pixel" /\ RenderCall(height)

NextPrint == SetCell \/ RenderCell

SpecPrint == InitPrint /\ [][NextPrint]_vars

(* Lists: a RenderableList is built from a collection, then asked for its *)
(* length and emptiness and iterated, twice, past its end.                 *)

InitList ==
    /\ subject = Nil
    /\ call = [op |-> "none"]
    /\ prev = [op |-> "none"]
    /\ width = Z(0)
    /\ objects = Nil
    /\ buffer = <<>>
    /\ created = [width |-> Z(0), height |-> Z(0)]
    /\ ncalls = 0

Built(op, a, l) ==
    /\ call.op = "none"
    /\ subject' = l
    /\ call' = [op |-> op, input |-> a]
    /\ UNCHANGED <<width, objects, buffer, created, prev, ncalls>>

BuildFromVector == \E a \in Collections : Built("build_from_vector", a, build_from_vector(a))

FromItems == \E a \in TypedCollections : Built("from_items", a, from_items(a))

ListMacro == \E a \in Collections : Built("renderable_list", a, renderable_list(a))

IsBuilt == call.op \in {"build_from_vector", "from_items", "renderable_list"}

ListLen ==
    /\ IsBuilt
    /\ call' = [op |-> "len", input |-> call.input, ret |-> len(subject)]
    /\ UNCHANGED <<width, objects, buffer, created, prev, ncalls, subject>>

ListIsEmpty ==
    /\ IsBuilt
    /\ call' = [op |-> "is_empty", input |-> call.input, ret |-> is_empty(subject)]
    /\ UNCHANGED <<width, objects, buffer, created, prev, ncalls, subject>>

\* list.iter(): on the list as built, and once more after a first iterator is used up;
\* `yielded` and `nones` are what the caller has been handed by this iterator so far.
ListIter ==
    /\ IsBuilt \/ (call.op = "next" /\ call.nones = MaxNones /\ prev.op = "none")
    /\ call' = [op |-> "iter", input |-> call.input, it |-> iter(subject),
                yielded |-> <<>>, nones |-> 0]
    /\ prev' = IF call.op = "next" THEN [op |-> "iterated", yielded |-> call.yielded]
               ELSE prev
    /\ UNCHANGED <<width, objects, buffer, created, ncalls, subject>>

\* it.next()
IterNext ==
    /\ call.op \in {"iter", "next"}
    /\ call.nones < MaxNones
    /\ LET r == next(call.it)
       IN  call' = [op |-> "next", input |-> call.input, it |-> r.it, item |-> r.item,
                    yielded |-> IF r.item.some THEN Append(call.yielded, r.item.val)
                                ELSE call.yielded,
                    nones |-> IF r.item.some THEN call.nones ELSE call.nones + 1]
    /\ UNCHANGED <<width, objects, buffer, created, prev, ncalls, subject>>

NextList == BuildFromVector \/ FromItems \/ ListMacro \/ ListLen \/ ListIsEmpty
            \/ ListIter \/ IterNext

SpecList == InitList /\ [][NextList]_vars

(* The geometry operators as pure functions of coordinates and translations *)
(* taken from the edges and the middle of the 32-bit ranges.               *)

InitGeometry ==
    /\ subject = Nil
    /\ call = [op |-> "none"]
    /\ prev = [op |-> "none"]
    /\ width = Z(0)
    /\ objects = Nil
    /\ buffer = <<>>
    /\ created = [width |-> Z(0), height |-> Z(0)]
    /\ ncalls = 0

ApplyTo ==
    \E c \in Coords, t \in Translations :
        \E r \in add_outcomes(c, t, apply_to(t, c)) :
            Returned([op |-> "apply_to", c |-> c, t |-> t, ret |-> r])

TranslationAdd ==
    \E c \in Coords, t \in Translations :
        \E r \in add_outcomes(c, t, translation_add(t, c)) :
            Returned([op |-> "translation_add", c |-> c, t |-> t, ret |-> r])

CoordAdd ==
    \E c \in Coords, t \in Translations :
        \E r \in add_outcomes(c, t, coord_add(c, t)) :
            Returned([op |-> "coord_add", c |-> c, t |-> t, ret |-> r])

ZeroApplyTo ==
    \E c \in Coords :
        \E r \in add_outcomes(c, zero, apply_to(zero, c)) :
            Returned([op |-> "zero_apply_to", c |-> c, ret |-> r])

CoordSub ==
    \E a \in Coords, b \in Coords :
        Returned([op |-> "sub", a |-> a, b |-> b, ret |-> Value(coord_sub(a, b))])

CoordSubAssign ==
    \E a \in Coords, b \in Coords :
        Returned([op |-> "sub_assign", a |-> a, b |-> b,
                  ret |-> Value(coord_sub_assign(a, b))])

NextGeometry ==
    ApplyTo \/ TranslationAdd \/ CoordAdd \/ ZeroApplyTo \/ CoordSub \/ CoordSubAssign

SpecGeometry == InitGeometry /\ [][NextGeometry]_vars

-----------------------------------------------------------------------------
(* Plain-integer readings used to state the properties: the grid as the    *)
(* specification describes it, independent of the machine arithmetic.      *)

\* The mathematical value of a machine integer (it must fit the checker's integers).
ValueOf(z) == z.hi * Limb + z.lo

Larger(a, b) == IF a > b THEN a ELSE b

\* a - b saturating at 0
Monus(a, b) == IF a > b THEN a - b ELSE 0

LeastOf(S) == CHOOSE i \in S : \A j \in S : i <= j

GreatestOf(S) == CHOOSE i \in S : \A j \in S : j <= i

ColumnOf(u) == ValueOf(u.position.x)

RowOf(u) == ValueOf(u.position.y)

MinColumn(px) == LeastOf({ ColumnOf(px[i]) : i \in 1..Len(px) })

MaxColumn(px) == GreatestOf({ ColumnOf(px[i]) : i \in 1..Len(px) })

MinRow(px) == LeastOf({ RowOf(px[i]) : i \in 1..Len(px) })

MaxRow(px) == GreatestOf({ RowOf(px[i]) : i \in 1..Len(px) })

\* The placement table: the anchor for available space (ax, ay).
TableAnchor(p, ax, ay) ==
    CASE p.tag = "TopLeft"      -> <<0, 0>>
      [] p.tag = "TopRight"     -> <<ax, 0>>
      [] p.tag = "BottomLeft"   -> <<0, ay>>
      [] p.tag = "BottomRight"  -> <<ax, ay>>
      [] p.tag = "CenterTop"    -> <<ax \div 2, 0>>
      [] p.tag = "CenterBottom" -> <<ax \div 2, ay>>
      [] p.tag = "CenterLeft"   -> <<0, ay \div 2>>
      [] p.tag = "CenterRight"  -> <<ax, ay \div 2>>
      [] p.tag = "CenterStage"  -> <<ax \div 2, ay \div 2>>
      [] p.tag = "Offset"       -> <<Larger(ValueOf(p.t.x), 0), Larger(ValueOf(p.t.y), 0)>>

\* The anchor of a non-empty pixel list px placed by `placement` (None meaning TopLeft)
\* in a grid of W columns and H rows; the object's size is that of its bounding box.
EngineAnchor(px, placement, W, H) ==
    TableAnchor(IF placement.some THEN placement.val ELSE Corner("TopLeft"),
                Monus(W, MaxColumn(px) - MinColumn(px) + 1),
                Monus(H, MaxRow(px) - MinRow(px) + 1))

\* The units of px that land on row r, column c (both counted from 1) when unit u is
\* written to cell (dx + u.x, dy + u.y).
Hits(px, dx, dy, r, c) ==
    { i \in 1..Len(px) : dx + ColumnOf(px[i]) = c - 1 /\ dy + RowOf(px[i]) = r - 1 }

\* The grid left by writing each unit u of px, in order, to cell (dx + u.x, dy + u.y) of
\* a grid `old` of W columns: a write below the last row adds blank rows, a write beyond
\* column W - 1 changes no cell.
Written(old, W, px, dx, dy) ==
    LET rows == Larger(Len(old), GreatestOf({ dy + RowOf(px[i]) + 1 : i \in 1..Len(px) }))
    IN  [r \in 1..rows |->
            [c \in 1..W |->
                IF Hits(px, dx, dy, r, c) # {}
                THEN px[GreatestOf(Hits(px, dx, dy, r, c))].content
                ELSE IF r <= Len(old) THEN old[r][c] ELSE BLANK_RENDER_CHAR]]

IsBlankRow(row) == \A c \in 1..Len(row) : row[c] = BLANK_RENDER_CHAR

-----------------------------------------------------------------------------
(* Properties of the engine.                                               *)

\* C1: in every state reachable from new(w, h) by set_pixel, load_renderable and render
\* calls the engine's width is still w, every buffer row has exactly w cells, and the
\* number of rows starts at h and is never smaller than it was before the last call.
C1_WidthFixedRowsOnlyGrow ==
    /\ width = created.width
    /\ \A r \in 1..Len(buffer) : Len(buffer[r]) = ValueOf(created.width)
    /\ call.op = "new" => Len(buffer) = ValueOf(created.height)
    /\ call.op # "new" => Len(buffer) >= Len(call.old)
    /\ Len(buffer) >= ValueOf(created.height)

\* A render that padded a buffer which an earlier call had already grown.
C1_Witness ==
    /\ call.op = "render"
    /\ Len(buffer) > Len(call.old)
    /\ Len(call.old) > ValueOf(created.height)

\* C2: set_pixel(x, y, ch) with x < width on a buffer of r rows.  With y >= r it leaves
\* exactly y + 1 rows, rows 0..r-1 unchanged and rows r..y blank except cell (x, y),
\* which holds ch; with y < r the row count is unchanged and cell (x, y), which holds
\* ch, is the only cell whose content changes.
C2_SetPixelInWidth ==
    (call.op = "set_pixel" /\ ZLt(call.x, width)) =>
        LET r == Len(call.old)
            x == ValueOf(call.x)
            y == ValueOf(call.y)
        IN  /\ Len(buffer) = IF y >= r THEN y + 1 ELSE r
            /\ buffer[y + 1][x + 1] = call.ch
            /\ \A i \in 1..Len(buffer), c \in 1..ValueOf(width) :
                   (i # y + 1 \/ c # x + 1) =>
                       buffer[i][c] = IF i <= r THEN call.old[i][c] ELSE BLANK_RENDER_CHAR

\* A set_pixel inside the width that added more than one row.
C2_Witness ==
    /\ call.op = "set_pixel"
    /\ ZLt(call.x, width)
    /\ ValueOf(call.y) > Len(call.old)
    /\ call.old # <<>>
    /\ \E i \in 1..Len(call.old) : ~IsBlankRow(call.old[i])

\* C3 as claimed: for every x >= width and every y, set_pixel(x, y, ch) leaves the
\* buffer exactly as it was (the same rows, the same cells).
C3_Original ==
    (call.op = "set_pixel" /\ ~ZLt(call.x, width)) => buffer = call.old

\* C3 as amended: for every x >= width, set_pixel(x, y, ch) changes no existing cell;
\* with y below the row count the buffer is exactly as it was, and with y at or beyond
\* the row count r the buffer grows to y + 1 rows, rows r..y all blank.
C3_OutOfWidthOnlyGrows ==
    (call.op = "set_pixel" /\ ~ZLt(call.x, width)) =>
        LET r == Len(call.old)
            y == ValueOf(call.y)
        IN  /\ Len(buffer) = IF y >= r THEN y + 1 ELSE r
            /\ \A i \in 1..r : buffer[i] = call.old[i]
            /\ \A i \in (r + 1)..Len(buffer) :
                   Len(buffer[i]) = ValueOf(width) /\ IsBlankRow(buffer[i])
            /\ y < r => buffer = call.old

\* A set_pixel beyond the width and below the last row, on a buffer holding a glyph.
C3_Witness ==
    /\ call.op = "set_pixel"
    /\ ~ZLt(call.x, width)
    /\ ValueOf(call.y) >= Len(call.old)
    /\ \E i \in 1..Len(call.old) : ~IsBlankRow(call.old[i])

\* C4: last write wins.  After load_renderable(A, pa) followed by load_renderable(B, pb)
\* every in-bounds cell that B paints holds the content of the last unit of B's pixels()
\* mapped to it, and a cell painted by A but not by B holds the content of A's last such
\* unit; within one RenderableList loaded in a single call, a cell painted by a later
\* element holds that element's content and a cell painted only by the earlier element
\* holds the earlier element's content.
C4_LastWriteWins ==
    /\ (call.op = "load_renderable" /\ prev.op = "load_renderable") =>
        LET W  == ValueOf(width)
            pa == pixels(prev.obj)
            pb == pixels(call.obj)
            aa == IF pa = <<>> THEN <<0, 0>>
                  ELSE EngineAnchor(pa, prev.placement, W, Len(prev.old))
            ab == IF pb = <<>> THEN <<0, 0>>
                  ELSE EngineAnchor(pb, call.placement, W, Len(call.old))
        IN  \A r \in 1..Len(buffer), c \in 1..W :
                IF Hits(pb, ab[1], ab[2], r, c) # {}
                THEN buffer[r][c] = pb[GreatestOf(Hits(pb, ab[1], ab[2], r, c))].content
                ELSE Hits(pa, aa[1], aa[2], r, c) # {} =>
                         buffer[r][c] = pa[GreatestOf(Hits(pa, aa[1], aa[2], r, c))].content
    /\ (call.op = "load_renderable" /\ call.obj.kind = "Link" /\ pixels(call.obj) # <<>>) =>
        LET W       == ValueOf(width)
            earlier == pixels(call.obj.head)
            later   == pixels(call.obj.tail)
            at      == EngineAnchor(pixels(call.obj), call.placement, W, Len(call.old))
        IN  \A r \in 1..Len(buffer), c \in 1..W :
                IF Hits(later, at[1], at[2], r, c) # {}
                THEN buffer[r][c] = later[GreatestOf(Hits(later, at[1], at[2], r, c))].content
                ELSE Hits(earlier, at[1], at[2], r, c) # {} =>
                         buffer[r][c] =
                             earlier[GreatestOf(Hits(earlier, at[1], at[2], r, c))].content

\* Two loads in a row where the second object covers a cell of the first with another
\* glyph and leaves another cell of the first uncovered.
C4_Witness ==
    /\ call.op = "load_renderable"
    /\ prev.op = "load_renderable"
    /\ pixels(prev.obj) # <<>>
    /\ pixels(call.obj) # <<>>
    /\ LET W  == ValueOf(width)
           pa == pixels(prev.obj)
           pb == pixels(call.obj)
           aa == EngineAnchor(pa, prev.placement, W, Len(prev.old))
           ab == EngineAnchor(pb, call.placement, W, Len(call.old))
       IN  /\ \E r \in 1..Len(buffer), c \in 1..W :
                  /\ Hits(pa, aa[1], aa[2], r, c) # {}
                  /\ Hits(pb, ab[1], ab[2], r, c) # {}
                  /\ call.old[r][c] # buffer[r][c]
           /\ \E r \in 1..Len(buffer), c \in 1..W :
                  /\ Hits(pa, aa[1], aa[2], r, c) # {}
                  /\ Hits(pb, ab[1], ab[2], r, c) = {}
                  /\ buffer[r][c] # BLANK_RENDER_CHAR

\* C5: load_renderable of an object whose pixels() is empty is a no-op for every
\* placement: the width, the number of rows and every cell are as before the call.
C5_EmptyLoadIsNoOp ==
    (call.op = "load_renderable" /\ pixels(call.obj) = <<>>) =>
        /\ buffer = call.old
        /\ width = created.width

\* An empty RenderableList loaded with an Offset placement pointing below the last row
\* of a buffer that holds a glyph.
C5_Witness ==
    /\ call.op = "load_renderable"
    /\ call.obj.kind = "Link"
    /\ pixels(call.obj) = <<>>
    /\ call.placement.some
    /\ call.placement.val.tag = "Offset"
    /\ ValueOf(call.placement.val.t.y) >= Len(call.old)
    /\ \E i \in 1..Len(call.old) : ~IsBlankRow(call.old[i])

\* C6: an object whose pixels() has minimum position (0, 0) and size
\* (ow, oh) = (max x + 1, max y + 1), loaded under placement P (None meaning TopLeft)
\* into an engine of width W with H rows: every unit u is written to cell
\* (ox + u.x, oy + u.y), (ox, oy) being the placement table's anchor for the available
\* space (W - ow, H - oh) saturating at 0.  A single 'A' at (0,0) loaded with CenterStage
\* into a fresh 5x3 engine lands at column 2, row 1 and every other cell stays blank.
C6_PlacementAnchor ==
    /\ (/\ call.op = "load_renderable"
        /\ pixels(call.obj) # <<>>
        /\ MinColumn(pixels(call.obj)) = 0
        /\ MinRow(pixels(call.obj)) = 0) =>
        LET px == pixels(call.obj)
            W  == ValueOf(width)
            H  == Len(call.old)
            at == TableAnchor(IF call.placement.some THEN call.placement.val
                              ELSE Corner("TopLeft"),
                              Monus(W, MaxColumn(px) + 1), Monus(H, MaxRow(px) + 1))
        IN  buffer = Written(call.old, W, px, at[1], at[2])
    /\ (/\ call.op = "load_renderable"
        /\ prev.op = "new"
        /\ created = [width |-> Z(5), height |-> Z(3)]
        /\ call.obj = VecOf(<<Unit(CharA, 0, 0)>>)
        /\ call.placement = Some(Corner("CenterStage"))) =>
        buffer = [r \in 1..3 |-> [c \in 1..5 |->
                     IF r = 2 /\ c = 3 THEN CharA ELSE BLANK_RENDER_CHAR]]

\* The single 'A' at (0,0) loaded with CenterStage into a fresh 5x3 engine.
C6_Witness ==
    /\ call.op = "load_renderable"
    /\ prev.op = "new"
    /\ created = [width |-> Z(5), height |-> Z(3)]
    /\ call.obj = VecOf(<<Unit(CharA, 0, 0)>>)
    /\ call.placement = Some(Corner("CenterStage"))
    /\ buffer[2][3] = CharA

\* C7 as claimed: load_renderable paints the top-left corner of the object's bounding
\* box at the anchor (x, y) resolved from the placement, whatever the minimum position
\* (mx, my) of the object's pixels(): a unit at p lands at cell (x + p.x - mx, y + p.y - my).
C7_Original ==
    (call.op = "load_renderable" /\ pixels(call.obj) # <<>>) =>
        LET px == pixels(call.obj)
            W  == ValueOf(width)
            at == EngineAnchor(px, call.placement, W, Len(call.old))
        IN  buffer = Written(call.old, W, px, at[1] - MinColumn(px), at[2] - MinRow(px))

-----------------------------------------------------------------------------
(* Properties of the Renderable capability.                                *)

\* The k-th smallest member of a set of indices.
NthOf(S, k) == CHOOSE i \in S : Cardinality({ j \in S : j <= i }) = k

\* C8: prune() returns exactly the units of rasterize() whose glyph is not ' ' or whose
\* protected flag is set, in their original order and unmodified; pruning the result
\* again returns it unchanged.
C8_PruneKeepsVisibleOrProtected ==
    call.op = "prune" =>
        LET px   == pixels(subject)
            kept == { i \in 1..Len(px) : px[i].content.ch # " " \/ px[i].protected }
        IN  /\ Len(call.ret) = Cardinality(kept)
            /\ \A k \in 1..Len(call.ret) : call.ret[k] = px[NthOf(kept, k)]
            /\ prune(VecOf(call.ret)) = call.ret

\* A prune that dropped a unit and kept both a glyph and a protected blank.
C8_Witness ==
    /\ call.op = "prune"
    /\ Len(call.ret) < Len(pixels(subject))
    /\ \E k \in 1..Len(call.ret) : call.ret[k].content.ch = " " /\ call.ret[k].protected
    /\ \E k \in 1..Len(call.ret) : call.ret[k].content.ch # " " /\ ~call.ret[k].protected

\* C9: pruning the result of protect() keeps every unit: prune(protect(x)) has the same
\* number of units as x, in the same order, with the same glyphs, styles and positions.
C9_ProtectSurvivesPrune ==
    call.op = "protect" =>
        LET px  == pixels(subject)
            out == prune(VecOf(call.ret))
        IN  /\ Len(out) = Len(px)
            /\ \A i \in 1..Len(out) :
                   /\ out[i].content.ch = px[i].content.ch
                   /\ out[i].content.style = px[i].content.style
                   /\ out[i].position = px[i].position

\* A protect of an object that prune alone would have shortened.
C9_Witness ==
    /\ call.op = "protect"
    /\ Len(call.ret) >= 2
    /\ Len(prune(subject)) < Len(pixels(subject))
    /\ Len(prune(VecOf(call.ret))) = Len(pixels(subject))

\* C10: for the nine placements other than Offset, every non-empty object and every
\* target size, the minimum x and minimum y of align(placement, target) equal the
\* placement table's anchor for the available space (target size minus the object's
\* bounding size max - min + 1, saturating at 0, halves truncating); a 2x2 object aligned
\* CenterStage in a 10x10 target has minimum (4, 4); align of an empty object is empty.
C10_AlignAnchor ==
    (call.op = "align" /\ call.to.tag # "Offset") =>
        LET px == pixels(subject)
        IN  IF px = <<>> THEN call.ret = <<>>
            ELSE LET at == TableAnchor(call.to,
                               Monus(ValueOf(call.dim.x), MaxColumn(px) - MinColumn(px) + 1),
                               Monus(ValueOf(call.dim.y), MaxRow(px) - MinRow(px) + 1))
                 IN  /\ Len(call.ret) = Len(px)
                     /\ MinColumn(call.ret) = at[1]
                     /\ MinRow(call.ret) = at[2]
                     /\ (/\ call.to.tag = "CenterStage"
                         /\ call.dim = DiscreteCoord(Z(10), Z(10))
                         /\ MaxColumn(px) - MinColumn(px) = 1
                         /\ MaxRow(px) - MinRow(px) = 1) =>
                            (MinColumn(call.ret) = 4 /\ MinRow(call.ret) = 4)

\* A 2x2 object away from the origin aligned CenterStage in a 10x10 target.
C10_Witness ==
    /\ call.op = "align"
    /\ call.to.tag = "CenterStage"
    /\ call.dim = DiscreteCoord(Z(10), Z(10))
    /\ Len(pixels(subject)) = 2
    /\ MinColumn(pixels(subject)) = 1
    /\ MinRow(pixels(subject)) = 1
    /\ MaxColumn(pixels(subject)) = 2
    /\ MaxRow(pixels(subject)) = 2
    /\ MinColumn(call.ret) = 4
    /\ MinRow(call.ret) = 4

\* C11 as claimed: align with Offset(t) uses the anchor (max(t.x, 0), max(t.y, 0)): for
\* every signed t the result equals that of align with Offset((max(t.x, 0), max(t.y, 0))).
C11_Original ==
    (call.op = "align" /\ call.to.tag = "Offset") =>
        call.ret = align(subject,
                         Offset(Translation(ZMax(call.to.t.x, Z(0)), ZMax(call.to.t.y, Z(0)))),
                         call.dim)

\* C12 as claimed: for every placement, Offset included, and every target size the
\* result of align has as many units as pixels(), in the same order, each with unchanged
\* glyph, style and protected flag, and any two units are as far apart after align as
\* before; with TopLeft and a target equal to the bounding size every position is
\* shifted by exactly minus the bounding box's minimum.
C12_Original ==
    call.op = "align" =>
        LET px == pixels(subject)
        IN  /\ Len(call.ret) = Len(px)
            /\ \A i \in 1..Len(px) :
                   /\ call.ret[i].content = px[i].content
                   /\ call.ret[i].protected = px[i].protected
            /\ \A i \in 1..Len(px), j \in 1..Len(px) :
                   /\ ColumnOf(call.ret[i]) - ColumnOf(call.ret[j])
                          = ColumnOf(px[i]) - ColumnOf(px[j])
                   /\ RowOf(call.ret[i]) - RowOf(call.ret[j]) = RowOf(px[i]) - RowOf(px[j])
            /\ (/\ px # <<>>
                /\ call.to.tag = "TopLeft"
                /\ ValueOf(call.dim.x) = MaxColumn(px) - MinColumn(px) + 1
                /\ ValueOf(call.dim.y) = MaxRow(px) - MinRow(px) + 1) =>
                   \A i \in 1..Len(px) :
                       /\ ColumnOf(call.ret[i]) = ColumnOf(px[i]) - MinColumn(px)
                       /\ RowOf(call.ret[i]) = RowOf(px[i]) - MinRow(px)

\* C13: translate(by) returns one unit for each unit of pixels(), in the same order, with
\* the same glyph, style and protected flag and with position
\* (max(0, x + by.x), max(0, y + by.y)); the object's pixels() after the call is what it
\* was before the call.
C13_TranslateClamps ==
    call.op = "translate" =>
        LET px == pixels(subject)
        IN  /\ px = call.self
            /\ Len(call.ret) = Len(call.self)
            /\ \A i \in 1..Len(call.self) :
                   /\ call.ret[i].content = call.self[i].content
                   /\ call.ret[i].protected = call.self[i].protected
                   /\ ColumnOf(call.ret[i])
                          = Larger(0, ColumnOf(call.self[i]) + ValueOf(call.by.x))
                   /\ RowOf(call.ret[i]) = Larger(0, RowOf(call.self[i]) + ValueOf(call.by.y))

\* A translate to the left that stops one unit at column 0 and moves another, of another
\* row, by the whole amount.
C13_Witness ==
    /\ call.op = "translate"
    /\ ValueOf(call.by.x) < 0
    /\ ValueOf(call.by.y) > 0
    /\ \E i \in 1..Len(call.self), j \in 1..Len(call.self) :
           /\ ColumnOf(call.self[i]) + ValueOf(call.by.x) < 0
           /\ ColumnOf(call.ret[i]) = 0
           /\ ColumnOf(call.ret[j]) = ColumnOf(call.self[j]) + ValueOf(call.by.x)
           /\ call.self[j].content # call.self[i].content

\* The elements of a RenderableList, first to last.
RECURSIVE ElementsOf(_)
ElementsOf(list) ==
    IF list.kind = "Link" THEN <<list.head>> \o ElementsOf(list.tail) ELSE <<>>

\* The units of an element: a pixel vector's own, a list's as the units of its elements
\* one after the other.
RECURSIVE UnitsOf(_)
RECURSIVE UnitsOfAll(_, _)
UnitsOf(obj) ==
    IF obj.kind = "Vec" THEN obj.items ELSE UnitsOfAll(ElementsOf(obj), 1)

UnitsOfAll(es, i) ==
    IF i > Len(es) THEN <<>> ELSE UnitsOf(es[i]) \o UnitsOfAll(es, i + 1)

RECURSIVE CountOfAll(_, _)
CountOfAll(es, i) ==
    IF i > Len(es) THEN 0 ELSE Len(UnitsOf(es[i])) + CountOfAll(es, i + 1)

\* C17: RenderableList::pixels() is the concatenation of each element's pixels() in list
\* order, head first, also when an element is itself a RenderableList; its length is the
\* sum of the elements' pixel counts and the empty list yields the empty sequence.
C17_ListPixelsConcatenate ==
    (call.op = "pixels" /\ subject.kind \in {"Link", "Nil"}) =>
        /\ call.ret = UnitsOfAll(ElementsOf(subject), 1)
        /\ Len(call.ret) = CountOfAll(ElementsOf(subject), 1)
        /\ subject.kind = "Nil" => call.ret = <<>>

\* pixels() of a list of two elements with different units, the first a list itself.
C17_Witness ==
    /\ call.op = "pixels"
    /\ subject.kind = "Link"
    /\ subject.head.kind = "Link"
    /\ Len(ElementsOf(subject)) = 2
    /\ Len(UnitsOf(subject.head)) = 2
    /\ Len(call.ret) = 4
    /\ call.ret[1] # call.ret[3]

\* The pixel vector a list's dim() ends up measuring: the first element's, through
\* nested lists; the empty vector when there is none.
RECURSIVE FirstVector(_)
FirstVector(obj) ==
    CASE obj.kind = "Vec"  -> obj.items
      [] obj.kind = "Link" -> FirstVector(obj.head)
      [] obj.kind = "Nil"  -> <<>>

\* C18: RenderableList::dim() returns the dim() of the first element (for a pixel vector
\* (max x + 1, max y + 1), (0, 0) when it is empty), whatever the later elements are, and
\* (0, 0) for the empty list.
C18_ListDimIsFirstElements ==
    (call.op = "dim" /\ subject.kind \in {"Link", "Nil"}) =>
        LET first == FirstVector(subject)
        IN  /\ ValueOf(call.ret.x) = IF first = <<>> THEN 0 ELSE MaxColumn(first) + 1
            /\ ValueOf(call.ret.y) = IF first = <<>> THEN 0 ELSE MaxRow(first) + 1
            /\ subject.kind = "Nil" => call.ret = DiscreteCoord(Z(0), Z(0))

\* dim() of a list whose later element reaches beyond the first: the result is smaller
\* than the bounding box of the list's pixels.
C18_Witness ==
    /\ call.op = "dim"
    /\ subject.kind = "Link"
    /\ pixels(subject.head) # <<>>
    /\ pixels(subject.tail) # <<>>
    /\ ValueOf(call.ret.x) < MaxColumn(pixels(subject)) + 1
    /\ ValueOf(call.ret.y) < MaxRow(pixels(subject)) + 1

-----------------------------------------------------------------------------
(* Properties of the geometry operators.  The exact sum and difference of  *)
(* two machine integers are ZAdd and ZSub, which do not wrap.              *)

\* C14 as claimed: for every 32-bit unsigned coordinate c and every 32-bit signed
\* translation t, Translation::apply_to, Translation + DiscreteCoord and
\* DiscreteCoord + Translation do not panic and give, on each axis, max(0, c + t)
\* computed over the integers.
C14_Original ==
    call.op \in {"apply_to", "translation_add", "coord_add"} =>
        /\ ~call.ret.panic
        /\ call.ret.val.x = ZMax(Z(0), ZAdd(call.c.x, call.t.x))
        /\ call.ret.val.y = ZMax(Z(0), ZAdd(call.c.y, call.t.y))

\* C15 as claimed: for every coordinate c of the unsigned 32-bit range,
\* Translation::zero().apply_to(c) is c.
C15_Original ==
    call.op = "zero_apply_to" => (~call.ret.panic /\ call.ret.val = call.c)

\* C16: for all coordinates a and b, a - b and a -= b give on each axis the difference
\* when a's component is at least b's and 0 otherwise, a value of the unsigned 32-bit
\* range; neither panics.
C16_SubSaturates ==
    call.op \in {"sub", "sub_assign"} =>
        /\ ~call.ret.panic
        /\ InU32(call.ret.val.x) /\ InU32(call.ret.val.y)
        /\ IF ZLt(call.a.x, call.b.x) THEN call.ret.val.x = Z(0)
           ELSE ZAdd(call.ret.val.x, call.b.x) = call.a.x
        /\ IF ZLt(call.a.y, call.b.y) THEN call.ret.val.y = Z(0)
           ELSE ZAdd(call.ret.val.y, call.b.y) = call.a.y

\* A subtraction that saturates on x and takes 2^31 from 2^32 - 1 on y.
C16_Witness ==
    /\ call.op = "sub"
    /\ call.a = DiscreteCoord(Z(5), U32_MAX)
    /\ call.b = DiscreteCoord(U32_MAX, I32_MAX_PLUS_1)
    /\ call.ret.val = DiscreteCoord(Z(0), I32_MAX)

-----------------------------------------------------------------------------
(* Properties of render.                                                   *)

\* C19: render(minHeight) on a buffer of r rows leaves exactly max(r, minHeight) rows;
\* the rows added are entirely blank and no cell that existed before the call is
\* changed; a second render with the same argument changes nothing.
C19_RenderPads ==
    call.op = "render" =>
        LET r == Len(call.old)
        IN  /\ Len(buffer) = Larger(r, ValueOf(call.height))
            /\ \A i \in 1..r : buffer[i] = call.old[i]
            /\ \A i \in (r + 1)..Len(buffer) :
                   Len(buffer[i]) = ValueOf(width) /\ IsBlankRow(buffer[i])
            /\ (prev.op = "render" /\ prev.height = call.height) => buffer = call.old

\* A second render with the argument of the first, which had added rows.
C19_Witness ==
    /\ call.op = "render"
    /\ prev.op = "render"
    /\ prev.height = call.height
    /\ Len(buffer) > ValueOf(created.height)
    /\ ValueOf(width) > 0

\* C20 as claimed: when render prints a cell whose style is a chain
\* Styled(a1, Styled(a2, ... Plain)), it emits the escape code of every attribute
\* a1, a2, ... in chain order, then the glyph once, then one reset code.
C20_Original ==
    (/\ call.op = "render"
     /\ buffer[1][1].style.seqs # <<>>
     /\ buffer[1][1].style.end = "Plain") =>
        LET cell == buffer[1][1]
            n    == Len(cell.style.seqs)
        IN  /\ ~call.out.panic
            /\ Len(call.out.text) >= n + 2
            /\ SubSeq(call.out.text, 1, n + 2)
                   = [i \in 1..n |-> to_esc_code(cell.style.seqs[i])] \o <<cell.ch, RESET>>

-----------------------------------------------------------------------------
(* Properties of render's output.                                          *)

\* The tokens render writes that are escape codes rather than glyphs.
IsEscape(tok) == tok \in { to_esc_code(a) : a \in Attributes \cup {"BgBlue"} } \cup { RESET }

\* The first glyph of a printed text: its first token that is no escape code.
FirstGlyph(text) ==
    LET glyphs == { k \in 1..Len(text) : ~IsEscape(text[k]) }
    IN  text[CHOOSE k \in glyphs : \A j \in glyphs : k <= j]

\* The token sequences a cell may be printed as: a Plain cell as its glyph alone; a
\* Styled cell as the codes of one or more attributes from the head of its chain, one
\* glyph, one reset.  The glyph of a chain that ends in Nil is the cell's or the blank.
CellForms(ch) ==
    IF ch.style.seqs = <<>> THEN { <<ch.ch>> }
    ELSE { [i \in 1..k |-> to_esc_code(ch.style.seqs[i])] \o <<g, RESET>> :
               k \in 1..Len(ch.style.seqs),
               g \in IF ch.style.end = "Nil" THEN { ch.ch, BLANK_RENDER_CHAR.ch }
                     ELSE { ch.ch } }

\* What is to be printed for rows r.. of a grid: its cells in row and column order, an
\* end-of-line mark after each row.
RECURSIVE PrintItems(_, _)
PrintItems(buf, r) ==
    IF r > Len(buf) THEN <<>>
    ELSE [c \in 1..Len(buf[r]) |-> [eol |-> FALSE, cell |-> buf[r][c]]]
         \o <<[eol |-> TRUE, cell |-> BLANK_RENDER_CHAR]>>
         \o PrintItems(buf, r + 1)

\* text from token pos on is exactly items i.. printed one after the other.
RECURSIVE PrintsAs(_, _, _, _)
PrintsAs(text, pos, items, i) ==
    IF i > Len(items) THEN pos = Len(text) + 1
    ELSE \E f \in IF items[i].eol THEN { <<"\n">> } ELSE CellForms(items[i].cell) :
             /\ pos + Len(f) - 1 <= Len(text)
             /\ SubSeq(text, pos, pos + Len(f) - 1) = f
             /\ PrintsAs(text, pos + Len(f), items, i + 1)

C21_Original ==
    (/\ call.op = "render"
     /\ buffer[1][1].style.end = "Nil") =>
        /\ ~call.out.panic
        /\ \E k \in 1..Len(call.out.text) : ~IsEscape(call.out.text[k])
        /\ FirstGlyph(call.out.text) = BLANK_RENDER_CHAR.ch

-----------------------------------------------------------------------------
(* Properties of load_renderable: positions, placement and repetition.     *)

\* C25: the engine never retains a loaded object: engine.objects is the empty list
\* (length 0) in every state reachable by new, set_pixel, load_renderable and render,
\* so what the last call did to the buffer is a function of its arguments, the width
\* and the buffer it found.
C25_ObjectsStaysEmpty ==
    /\ objects = Nil
    /\ is_empty(objects)
    /\ len(objects) = 0
    /\ call.op = "set_pixel" =>
           buffer = set_pixel(width, call.old, call.x, call.y, call.ch)
    /\ call.op = "load_renderable" =>
           buffer = load_renderable(width, call.old, call.obj, call.placement)
    /\ call.op = "render" =>
           /\ buffer = render(width, call.old, call.height)
           /\ call.out = print_lines(buffer, 1)

\* Two loads of objects with pixels, one after the other: nothing is retained.
C25_Witness ==
    /\ call.op = "load_renderable"
    /\ prev.op = "load_renderable"
    /\ pixels(call.obj) # <<>>
    /\ pixels(prev.obj) # <<>>
    /\ buffer # new_buffer(created.width, created.height)
    /\ len(objects) = 0

RECURSIVE SetEach(_, _, _, _)
SetEach(px, i, w, buf) ==
    IF i > Len(px) THEN buf
    ELSE SetEach(px, i + 1, w,
                 set_pixel(w, buf, px[i].position.x, px[i].position.y, px[i].content))

-----------------------------------------------------------------------------
(* Properties of RenderableList as a container.                            *)

\* C26: a RenderableList built from an ordered collection of n drawables
\* (build_from_vector, from_items or renderable_list!) has len() = n, is_empty() exactly
\* when n = 0, and iter() yields exactly n references, the i-th being the i-th input
\* element, then None on every further call; iterating leaves the list unchanged, so a
\* second iter() yields the same sequence.
C26_ListHoldsItsItemsInOrder ==
    call.op # "none" =>
        LET n == Len(call.input)
        IN  /\ ElementsOf(subject) = call.input
            /\ call.op = "len" => call.ret = n
            /\ call.op = "is_empty" => call.ret = (n = 0)
            /\ call.op = "next" =>
                   LET k == Len(call.yielded) + call.nones
                   IN  /\ call.yielded = SubSeq(call.input, 1, Len(call.yielded))
                       /\ k <= n => (call.nones = 0 /\ call.item = SomeItem(call.input[k]))
                       /\ k > n => (Len(call.yielded) = n /\ call.item = NoItem)
            /\ (call.op = "next" /\ prev.op = "iterated" /\ call.nones > 0) =>
                   call.yielded = prev.yielded

\* A second iterator over a list of three elements, the first unlike the last, called
\* until it has returned None twice.
C26_Witness ==
    /\ call.op = "next"
    /\ prev.op = "iterated"
    /\ call.nones >= 2
    /\ Len(call.input) = 3
    /\ call.input[1] # call.input[3]
    /\ call.yielded = call.input
    /\ len(subject) = 3

-----------------------------------------------------------------------------
(* Properties of load_renderable for objects that start at (0,0).          *)

\* C27: loading is idempotent for origin-normalized objects: for an object whose
\* pixels() has minimum position (0,0), any placement and any engine state, calling
\* load_renderable twice in a row with the same object and placement leaves the buffer
\* (row count and every cell) identical to calling it once, even when the first call
\* grows the buffer.
C27_LoadTwiceIsLoadOnce ==
    (/\ call.op = "load_renderable"
     /\ prev.op = "load_renderable"
     /\ prev.obj = call.obj
     /\ prev.placement = call.placement
     /\ pixels(call.obj) # <<>>
     /\ MinColumn(pixels(call.obj)) = 0
     /\ MinRow(pixels(call.obj)) = 0) =>
        /\ Len(buffer) = Len(call.old)
        /\ buffer = call.old

\* A second load of an object two rows high, placed at the bottom right, after the
\* first load had to add rows for it.
C27_Witness ==
    /\ call.op = "load_renderable"
    /\ prev.op = "load_renderable"
    /\ prev.obj = call.obj
    /\ prev.placement = call.placement
    /\ call.placement = Some(Corner("BottomRight"))
    /\ pixels(call.obj) # <<>>
    /\ MinColumn(pixels(call.obj)) = 0
    /\ MinRow(pixels(call.obj)) = 0
    /\ MaxRow(pixels(call.obj)) = 1
    /\ Len(prev.old) < Len(call.old)
    /\ buffer = call.old

C29_FittingObjectStaysInside ==
    (/\ call.op = "load_renderable"
     /\ pixels(call.obj) # <<>>
     /\ MinColumn(pixels(call.obj)) = 0
     /\ MinRow(pixels(call.obj)) = 0
     /\ MaxColumn(pixels(call.obj)) + 1 <= ValueOf(width)
     /\ MaxRow(pixels(call.obj)) + 1 <= Len(call.old)
     /\ call.placement.some
     /\ call.placement.val \in NonOffsetPlacements) =>
        LET px == pixels(call.obj)
            W  == ValueOf(width)
            H  == Len(call.old)
        IN  /\ Len(buffer) = H
            /\ \E x \in 0..(W - 1), y \in 0..(H - 1) :
                   /\ \A i \in 1..Len(px) : x + ColumnOf(px[i]) < W /\ y + RowOf(px[i]) < H
                   /\ buffer = Written(call.old, W, px, x, y)
                   /\ \A i \in 1..Len(px) :
                          \E j \in i..Len(px) :
                              /\ px[j].position = px[i].position
                              /\ buffer[y + RowOf(px[i]) + 1][x + ColumnOf(px[i]) + 1]
                                     = px[j].content

\* A 2x2 object placed at the bottom right of a fresh 5x3 engine: both units are shown,
\* the second in the last column of the last row, and the buffer still has three rows.
C29_Witness ==
    /\ call.op = "load_renderable"
    /\ prev.op = "new"
    /\ created = [width |-> Z(5), height |-> Z(3)]
    /\ call.obj = VecOf(<<Unit(CharA, 0, 0), Unit(CharB, 1, 1)>>)
    /\ call.placement = Some(Corner("BottomRight"))
    /\ Len(buffer) = 3
    /\ buffer[2][4] = CharA
    /\ buffer[3][5] = CharB

-----------------------------------------------------------------------------
(* Properties of Stylable::style.                                          *)

\* C30: style on a pixel list replaces rather than stacks: with an argument
\* Styled(seq, rest) every returned unit has exactly that chain as its style, whatever
\* style it had before, with glyph, position, protected flag, count and order
\* unchanged; with an argument Plain or Nil the units are returned unchanged.  Hence
\* style(s2) applied after style(s1) equals style(s2) alone for every Styled s2.
C30_StyleReplaces ==
    call.op = "style" =>
        /\ Len(call.ret) = Len(call.self)
        /\ \A i \in 1..Len(call.ret) :
               /\ call.ret[i].content.ch = call.self[i].content.ch
               /\ call.ret[i].position = call.self[i].position
               /\ call.ret[i].protected = call.self[i].protected
               /\ IF call.arg.seqs # <<>>
                  THEN call.ret[i].content.style = call.arg
                  ELSE call.ret[i] = call.self[i]
        /\ (prev.op = "style" /\ call.arg.seqs # <<>>) =>
               call.ret = style(subject.items, call.arg)

\* A vector holding a protected bold 'B' styled bold, then styled red and underlined
\* over Nil: the second style is all that is left.
C30_Witness ==
    /\ call.op = "style"
    /\ prev.op = "style"
    /\ prev.arg = Styled("Bold", StylePlain)
    /\ call.arg = Styled("FgRed", Styled("Underline", StyleNil))
    /\ Len(call.ret) >= 2
    /\ \E i \in 1..Len(call.ret) :
           /\ subject.items[i].content = CharB
           /\ subject.items[i].protected
           /\ call.ret[i].content = RenderChar("B", call.arg)
           /\ call.ret[i].protected

=============================================================================
